---- MODULE Spec2Model ----
(***************************************************************************)
(* Model of yaml_to_html_converter.py (APISpecConverter).                   *)
(*                                                                         *)
(* Two parts of the converter are modelled:                                *)
(*   - the endpoint catalogue: extract_tags, extract_endpoints,            *)
(*     organize_endpoints_by_tag, run in the order generate_html calls     *)
(*     them on the loaded document spec_data;                              *)
(*   - the schema renderer format_schema_as_json, a pure recursive         *)
(*     function from a schema mapping and an indent level to text.         *)
(*                                                                         *)
(* Python values are modelled as follows.  A dict is an insertion-ordered  *)
(* sequence of <<key, value>> pairs with distinct keys when its order is   *)
(* observable (paths, methods, properties, tag_endpoints) and a TLA+       *)
(* record holding exactly the keys that are present when only membership   *)
(* and lookup are used (a tag entry, an operation's details, a schema).    *)
(* A list is a sequence.  A str.join / f-string result is the sequence of  *)
(* the text pieces it concatenates.                                        *)
(***************************************************************************)
EXTENDS Naturals, Sequences, FiniteSets, TLC

VARIABLES
    spec_data,      \* self.spec_data: the loaded document
    set_iter,       \* iteration order of the set endpoint_tags in this process
    pc,             \* position of generate_html
    tags,           \* generate_html's local `tags` (result of extract_tags)
    tag_endpoints,  \* generate_html's local `tag_endpoints`
    prev_run,       \* what the previous run of the program on this document produced
    schema,         \* argument `schema` of format_schema_as_json
    indent_level,   \* argument `indent_level` of format_schema_as_json
    rendered,       \* its return value
    rpc,            \* position of the caller of format_schema_as_json
    sidebar,        \* the entries of the sidebar generate_sidebar_html built
    sections        \* the sections generate_endpoint_sections built

vars == <<spec_data, set_iter, pc, tags, tag_endpoints, prev_run,
          schema, indent_level, rendered, rpc, sidebar, sections>>

catalogVars == <<spec_data, set_iter, pc, tags, tag_endpoints, prev_run>>
renderVars == <<schema, indent_level, rendered, rpc>>
pageVars == <<sidebar, sections>>

(***************************************************************************)
(* Bounds of the model.                                                    *)
(***************************************************************************)
MaxOps == 2         \* operations in a document
MaxDepth == 2       \* nesting depth of a schema
MaxIndent == 1      \* indent level format_schema_as_json is called with
RecursionLimit == 3 \* frames the interpreter allows (sys.getrecursionlimit())

(***************************************************************************)
(* Generic helpers for sequences and insertion-ordered dicts.              *)
(***************************************************************************)
Range(s) == {s[i] : i \in 1..Len(s)}

\* dict.get(key, default) on a record holding the present keys
Get(d, key, default) == IF key \in DOMAIN d THEN d[key] ELSE default

DictKeys(d) == [i \in 1..Len(d) |-> d[i][1]]

DictHas(d, k) == \E i \in 1..Len(d) : d[i][1] = k

DictGet(d, k) == d[CHOOSE i \in 1..Len(d) : d[i][1] = k][2]

\* d[k] = v : an existing key keeps its position, a new key goes last
DictSet(d, k, v) ==
    IF DictHas(d, k)
    THEN [i \in 1..Len(d) |-> IF d[i][1] = k THEN <<k, v>> ELSE d[i]]
    ELSE Append(d, <<k, v>>)

NoRepeat(s) == \A i, j \in 1..Len(s) : s[i] = s[j] => i = j

Perms(S) == {s \in [1..Cardinality(S) -> S] : Range(s) = S}

RECURSIVE Concat(_)
Concat(ss) == IF ss = <<>> THEN <<>> ELSE Head(ss) \o Concat(Tail(ss))

(***************************************************************************)
(* The documents load_spec can produce (the input domain of the model).    *)
(***************************************************************************)
UNCATEGORIZED == "Uncategorized"

UNCATEGORIZED_DESCRIPTION == "Operations without specific categorization"

TagNames == {"Pets", "Store", UNCATEGORIZED}

\* entries of the document's global `tags` list; `description` may be absent
DeclaredPool ==
    { [name |-> "Pets", description |-> "Pet operations"],
      [name |-> "Store"],
      [name |-> UNCATEGORIZED],
      [name |-> UNCATEGORIZED, description |-> UNCATEGORIZED_DESCRIPTION] }

DeclaredLists ==
    {<<>>} \cup {<<a>> : a \in DeclaredPool}
           \cup {<<a, b>> : a \in DeclaredPool, b \in DeclaredPool}

\* an operation's `tags` list, repeated names included
TagLists ==
    {<<>>} \cup {<<a>> : a \in TagNames}
           \cup {<<a, b>> : a \in TagNames, b \in TagNames}

\* an operation either has no `tags` key or has one of the lists
TagChoices ==
    {[present |-> FALSE, list |-> <<>>]}
        \cup {[present |-> TRUE, list |-> l] : l \in TagLists}

PathNames == <<"/pets", "/store">>

MethodKeys == <<"get", "post", "put", "delete">>

\* the k-th operation of the document carries the summary "op<k>"
Details(k, choice) ==
    IF choice.present
    THEN [summary |-> "op" \o ToString(k), tags |-> choice.list]
    ELSE [summary |-> "op" \o ToString(k)]

\* how n operations are spread over the paths of the document: all under
\* the first path, or the first under it and the others under the second
Splits(n) ==
    IF n = 0 THEN {<<>>}
    ELSE IF n = 1 THEN {<<n>>}
    ELSE {<<n>>, <<1, n - 1>>}

Offset(counts, p) == IF p = 1 THEN 0 ELSE counts[1]

BuildPaths(counts, tagging) ==
    [p \in 1..Len(counts) |->
        <<PathNames[p],
          [j \in 1..counts[p] |->
              <<MethodKeys[j],
                Details(Offset(counts, p) + j, tagging[Offset(counts, p) + j])>>]>>]

\* the document declaring `declared`, with its operations spread over the
\* paths as `counts` says and tagged as `tagging` says
Document(declared, counts, tagging) ==
    [tags |-> declared, paths |-> BuildPaths(counts, tagging)]

\* the method keys of a path as documents spell them: lower case, upper
\* case, capitalised, and two spellings of one method under the same path
MethodSpellings ==
    { MethodKeys,
      <<"GET", "POST", "PUT", "DELETE">>,
      <<"Get", "Post", "Put", "Delete">>,
      <<"get", "GET", "put", "delete">>,
      <<"GET", "get", "Put", "DELETE">> }

SpelledPaths(counts, tagging, keys) ==
    [p \in 1..Len(counts) |->
        <<PathNames[p],
          [j \in 1..counts[p] |->
              <<keys[j],
                Details(Offset(counts, p) + j, tagging[Offset(counts, p) + j])>>]>>]

\* the documents the page is generated from
PageDeclaredLists ==
    { <<>>,
      <<[name |-> UNCATEGORIZED]>>,
      <<[name |-> "Pets", description |-> "Pet operations"],
        [name |-> UNCATEGORIZED, description |-> "Declared"]>> }

PageTagChoices ==
    { [present |-> FALSE, list |-> <<>>],
      [present |-> TRUE, list |-> <<"Pets">>],
      [present |-> TRUE, list |-> <<UNCATEGORIZED>>],
      [present |-> TRUE, list |-> <<"Store", "Pets">>] }

(***************************************************************************)
(* str.upper and str.lower on the method keys.                             *)
(***************************************************************************)
Lower(method) ==
    CASE method \in {"get", "Get", "GET"} -> "get"
      [] method \in {"post", "Post", "POST"} -> "post"
      [] method \in {"put", "Put", "PUT"} -> "put"
      [] method \in {"delete", "Delete", "DELETE"} -> "delete"

Upper(method) ==
    CASE method \in {"get", "Get", "GET"} -> "GET"
      [] method \in {"post", "Post", "POST"} -> "POST"
      [] method \in {"put", "Put", "PUT"} -> "PUT"
      [] method \in {"delete", "Delete", "DELETE"} -> "DELETE"

(***************************************************************************)
(* The nested loops `for path, methods in ...items(): for method, details  *)
(* in methods.items()`: the operations in the order the loops visit them.  *)
(***************************************************************************)
RECURSIVE Flatten(_)
Flatten(paths) ==
    IF paths = <<>> THEN <<>>
    ELSE LET path == Head(paths)[1]
             methods == Head(paths)[2]
         IN [j \in 1..Len(methods) |->
                [path |-> path, method |-> methods[j][1], details |-> methods[j][2]]]
            \o Flatten(Tail(paths))

(***************************************************************************)
(* extract_tags                                                            *)
(***************************************************************************)
\* global_tags = {tag['name']: tag.get('description', '') for tag in tags}
RECURSIVE GlobalTags(_)
GlobalTags(declared) ==
    IF declared = <<>> THEN <<>>
    ELSE LET n == Len(declared)
             tag == declared[n]
         IN DictSet(GlobalTags(SubSeq(declared, 1, n - 1)),
                    tag.name, Get(tag, "description", ""))

\* mutant of HasUntagged: only an absent `tags` key counts as untagged
HasUntaggedMissingKey(spec) ==
    \E op \in Range(Flatten(spec.paths)) : "tags" \notin DOMAIN op.details

\* the loop of lines 77-82: `if not tags: has_untagged = True`
HasUntagged(spec) ==
    \E op \in Range(Flatten(spec.paths)) : Get(op.details, "tags", <<>>) = <<>>

\* the loop of lines 77-82: `endpoint_tags.update(tags)`
EndpointTags(spec) ==
    UNION {Range(Get(op.details, "tags", <<>>)) : op \in Range(Flatten(spec.paths))}

\* `for tag_name in endpoint_tags`: a set of str iterates in an order fixed
\* by the process's string hashing, not by insertion; `order` is that order
SetIteration(S, order) == SelectSeq(order, LAMBDA x : x \in S)

\* mutant of ExtractTags: the tags found only on endpoints are left out
ExtractTagsDeclaredOnly(spec, order) ==
    LET global_tags == GlobalTags(spec.tags)
        declared_part == [i \in 1..Len(global_tags) |->
                            [name |-> global_tags[i][1],
                             description |-> global_tags[i][2]]]
        uncategorized == IF HasUntagged(spec)
                         THEN << [name |-> UNCATEGORIZED,
                                  description |-> UNCATEGORIZED_DESCRIPTION] >>
                         ELSE <<>>
    IN declared_part \o uncategorized

ExtractTags(spec, order) ==
    LET global_tags == GlobalTags(spec.tags)
        endpoint_only == SelectSeq(SetIteration(EndpointTags(spec), order),
                                   LAMBDA t : ~DictHas(global_tags, t))
        declared_part == [i \in 1..Len(global_tags) |->
                            [name |-> global_tags[i][1],
                             description |-> global_tags[i][2]]]
        endpoint_part == [i \in 1..Len(endpoint_only) |->
                            [name |-> endpoint_only[i], description |-> ""]]
        uncategorized == IF HasUntagged(spec)
                         THEN << [name |-> UNCATEGORIZED,
                                  description |-> UNCATEGORIZED_DESCRIPTION] >>
                         ELSE <<>>
    IN declared_part \o endpoint_part \o uncategorized

(***************************************************************************)
(* extract_endpoints                                                       *)
(***************************************************************************)
EndpointDetails(details) ==
    [summary |-> Get(details, "summary", ""),
     description |-> Get(details, "description", ""),
     tags |-> Get(details, "tags", <<>>)]

ExtractEndpoints(spec) ==
    [p \in 1..Len(spec.paths) |->
        <<spec.paths[p][1],
          [j \in 1..Len(spec.paths[p][2]) |->
              <<spec.paths[p][2][j][1], EndpointDetails(spec.paths[p][2][j][2])>>]>>]

(***************************************************************************)
(* organize_endpoints_by_tag                                               *)
(***************************************************************************)
\* lines 174-175: tag_endpoints[tag['name']] = [] for each extracted tag
RECURSIVE InitBuckets(_)
InitBuckets(all_tags) ==
    IF all_tags = <<>> THEN <<>>
    ELSE LET n == Len(all_tags)
         IN DictSet(InitBuckets(SubSeq(all_tags, 1, n - 1)), all_tags[n].name, <<>>)

EndpointInfo(op) ==
    [path |-> op.path,
     method |-> Upper(op.method),
     summary |-> op.details.summary,
     description |-> op.details.description]

\* lines 192-194: append to each tag of the endpoint that has a bucket
RECURSIVE AddToTags(_, _, _)
AddToTags(buckets, endpoint_tags, endpoint_info) ==
    IF endpoint_tags = <<>> THEN buckets
    ELSE LET tag == Head(endpoint_tags)
             next == IF DictHas(buckets, tag)
                     THEN DictSet(buckets, tag,
                                  Append(DictGet(buckets, tag), endpoint_info))
                     ELSE buckets
         IN AddToTags(next, Tail(endpoint_tags), endpoint_info)

\* lines 187-197: one operation
PlaceEndpoint(buckets, op) ==
    LET endpoint_info == EndpointInfo(op)
        endpoint_tags == op.details.tags
    IN IF endpoint_tags # <<>>
       THEN AddToTags(buckets, endpoint_tags, endpoint_info)
       ELSE DictSet(buckets, UNCATEGORIZED,
                    Append(DictGet(buckets, UNCATEGORIZED), endpoint_info))

\* lines 178-197: all operations in loop order
RECURSIVE GroupEndpoints(_, _)
GroupEndpoints(buckets, ops) ==
    IF ops = <<>> THEN buckets
    ELSE GroupEndpoints(PlaceEndpoint(buckets, Head(ops)), Tail(ops))

\* mutant of RemoveEmpty: the empty buckets are kept
RemoveNothing(buckets) == buckets

\* line 200: {tag: endpoints for tag, endpoints in ... if endpoints}
RemoveEmpty(buckets) == SelectSeq(buckets, LAMBDA b : b[2] # <<>>)

OrganizeEndpointsByTag(spec, order) ==
    RemoveEmpty(GroupEndpoints(InitBuckets(ExtractTags(spec, order)),
                               Flatten(ExtractEndpoints(spec))))

(***************************************************************************)
(* The schemas format_schema_as_json is called with.  A schema is the      *)
(* record of the keys present in the mapping; `properties` is the ordered  *)
(* sequence of <<name, schema>> pairs, `required` a list of names.         *)
(***************************************************************************)
None == [py_none |-> TRUE]

EmptyDict == <<>>

PropNames == <<"id", "name">>

\* schemas without properties or items
Leaves ==
    { [type |-> "integer"],
      [type |-> "string", description |-> "Display name"],
      [type |-> "string", description |-> ""],
      [type |-> "widget"],
      [type |-> "object"],
      [type |-> "array"],
      [description |-> "Display name"],
      EmptyDict }

\* the leaves a deeper object holds next to a nested schema
Siblings == { [type |-> "string", description |-> "Display name"] }

ObjectSchemas(properties) ==
    { [type |-> "object", properties |-> properties],
      [type |-> "object", properties |-> properties, required |-> <<"id">>] }

ArraySchema(items) == [type |-> "array", items |-> items]

\* every object of at most two properties over `children`
ObjectsOver(children) ==
    UNION { ObjectSchemas(ps) :
              ps \in {<<>>}
                 \cup {<< <<n, c>> >> : n \in Range(PropNames), c \in children}
                 \cup {<< <<nm[1], c>>, <<nm[2], d>> >> :
                          nm \in {x \in Range(PropNames) \X Range(PropNames) :
                                     x[1] # x[2]},
                          c \in children, d \in children} }

\* the schemas that hold `s` directly: as items, as the only property, and
\* as a property before or after a sibling leaf
Wrap(s) ==
    {ArraySchema(s)}
        \cup ObjectSchemas(<< <<"id", s>> >>)
        \cup UNION { ObjectSchemas(<< <<"id", s>>, <<"name", b>> >>)
                       \cup ObjectSchemas(<< <<"name", b>>, <<"id", s>> >>)
                     : b \in Siblings }

RECURSIVE SchemasOfDepth(_)
SchemasOfDepth(d) ==
    IF d = 0 THEN Leaves
    ELSE IF d = 1 THEN ObjectsOver(Leaves) \cup {ArraySchema(c) : c \in Leaves}
    ELSE UNION {Wrap(s) : s \in SchemasOfDepth(d - 1)}

Schemas == {None} \cup UNION {SchemasOfDepth(d) : d \in 0..MaxDepth}

\* schemas with shared dicts: two dicts that may refer to themselves, to each
\* other and to a third, the integer leaf
SharedNodes ==
    LET refs == 1..3
    IN {[type |-> "object", properties |-> << <<"id", a>> >>] : a \in refs}
       \cup {[type |-> "object", properties |-> << <<"id", ab[1]>>, <<"name", ab[2]>> >>] :
                ab \in refs \X refs}
       \cup {[type |-> "array", items |-> a] : a \in refs}
       \cup {[type |-> "object"], [type |-> "array"]}

SharedSchemas ==
    {[py_objects |-> <<n[1], n[2], [type |-> "integer"]>>, py_root |-> 1] :
        n \in SharedNodes \X SharedNodes}

\* schemas in which a property's schema or an array's items may be null
\* (a YAML key with no value), alone and inside another schema
PartialLeaves == Leaves \cup {None}

PartialSchemas ==
    LET flat == ObjectsOver(PartialLeaves) \cup {ArraySchema(c) : c \in PartialLeaves}
    IN flat \cup UNION {Wrap(s) : s \in {ArraySchema(None), ArraySchema(EmptyDict),
                                          [type |-> "object",
                                           properties |-> << <<"id", None>> >>]}}

(***************************************************************************)
(* format_schema_as_json.  The text it builds is the sequence of the       *)
(* pieces the f-strings and '\n'.join concatenate; a call either returns   *)
(* a text or raises.                                                       *)
(***************************************************************************)
Return(text) == [raised |-> "", text |-> text]

Raise(exception) == [raised |-> exception, text |-> <<>>]

IsNone(x) == "py_none" \in DOMAIN x

\* mutant of Falsy: only None is taken as absent
FalsyNoneOnly(x) == IsNone(x)

\* `not schema`: None and the empty mapping
Falsy(x) == IsNone(x) \/ DOMAIN x = {}

\* _indent(level): "  " * level
Indent(level) == [i \in 1..level |-> "  "]

\* f'"{prop_name}"'
Quoted(prop_name) == "\"" \o prop_name \o "\""

\* mutant of TypeText: every type is shown as the placeholder "(any)"
TypeTextAny(type) == "(any)"

\* f"({type})"
TypeText(type) == "(" \o type \o ")"

\* '\n'.join(result)
RECURSIVE JoinLines(_)
JoinLines(result) ==
    IF result = <<>> THEN <<>>
    ELSE IF Len(result) = 1 THEN Head(result)
    ELSE Head(result) \o <<"\n">> \o JoinLines(Tail(result))

\* mutant of TypeInfo: the required marker is put before the comment
TypeInfoMarkerFirst(prop_type, description, is_required) ==
    <<TypeText(prop_type)>>
        \o (IF is_required THEN <<" *">> ELSE <<>>)
        \o (IF description # "" THEN <<" // " \o description>> ELSE <<>>)

\* mutant of TypeInfo: the description is not shown
TypeInfoNoComment(prop_type, description, is_required) ==
    <<TypeText(prop_type)>> \o (IF is_required THEN <<" *">> ELSE <<>>)

\* lines 344-348: the annotations of a primitive property
TypeInfo(prop_type, description, is_required) ==
    <<TypeText(prop_type)>>
        \o (IF description # "" THEN <<" // " \o description>> ELSE <<>>)
        \o (IF is_required THEN <<" *">> ELSE <<>>)

\* mutant of PropertyItems: the properties are visited sorted by name
PropertyItemsSorted(object) ==
    SortSeq(object.properties,
            LAMBDA a, b : (CHOOSE i \in 1..Len(PropNames) : PropNames[i] = a[1])
                            < (CHOOSE i \in 1..Len(PropNames) : PropNames[i] = b[1]))

\* lines 319, 322: enumerate(schema['properties'].items())
PropertyItems(object) == object.properties

\* lines 351-352
Comma(i, n) == IF i < n THEN <<",">> ELSE <<>>

RECURSIVE FormatSchemaAsJson(_, _)
RECURSIVE PropertyLine(_, _, _, _)

\* lines 322-353: the line of the i-th property, or the exception raised
PropertyLine(object, i, level, required) ==
    LET properties == PropertyItems(object)
        prop_name == properties[i][1]
        prop_schema == properties[i][2]
        key == Indent(level + 1) \o <<Quoted(prop_name), ": ">>
        comma == Comma(i, Len(properties))
    IN IF IsNone(prop_schema) THEN Raise("AttributeError")
       ELSE
       LET is_required == prop_name \in Range(required)
           prop_type == Get(prop_schema, "type", "any")
           description == Get(prop_schema, "description", "")
       IN IF prop_type = "object" /\ "properties" \in DOMAIN prop_schema
          THEN LET nested_value == FormatSchemaAsJson(prop_schema, level + 1)
               IN IF nested_value.raised # "" THEN nested_value
                  ELSE Return(key \o nested_value.text \o comma)
          ELSE IF prop_type = "array" /\ "items" \in DOMAIN prop_schema
          THEN LET items_schema == prop_schema.items
               IN IF IsNone(items_schema) THEN Raise("TypeError")
                  ELSE IF "type" \in DOMAIN items_schema
                  THEN IF items_schema.type = "object"
                       THEN LET nested_value ==
                                    FormatSchemaAsJson(items_schema, level + 2)
                            IN IF nested_value.raised # "" THEN nested_value
                               ELSE Return(key \o <<"[", "\n">>
                                               \o Indent(level + 2)
                                               \o nested_value.text
                                               \o <<"\n">> \o Indent(level + 1)
                                               \o <<"]">> \o comma)
                       ELSE Return(key \o <<"[ ", TypeText(items_schema.type), " ]">>
                                       \o comma)
                  ELSE Return(key \o <<"[ ", "(any)", " ]">> \o comma)
          ELSE Return(key \o TypeInfo(prop_type, description, is_required) \o comma)

\* lines 318-355: an object with properties
FormatObject(object, level) ==
    LET properties == PropertyItems(object)
        required == Get(object, "required", <<>>)
        lines == [i \in 1..Len(properties) |->
                     PropertyLine(object, i, level, required)]
        failed == {i \in 1..Len(properties) : lines[i].raised # ""}
    IN IF failed # {}
       THEN lines[CHOOSE i \in failed : \A j \in failed : i <= j]
       ELSE Return(JoinLines(<< <<"{">> >>
                                \o [i \in 1..Len(properties) |-> lines[i].text]
                                \o << Indent(level) \o <<"}">> >>))

\* lines 356-365: a top-level array with items
FormatArray(array, level) ==
    LET items_schema == array.items
    IN IF IsNone(items_schema) THEN Raise("TypeError")
       ELSE IF "type" \in DOMAIN items_schema
       THEN IF items_schema.type = "object"
            THEN LET nested_value ==
                         FormatSchemaAsJson(items_schema, level)
                 IN IF nested_value.raised # "" THEN nested_value
                    ELSE Return(<<"[", "\n">> \o Indent(level + 1)
                                    \o nested_value.text
                                    \o <<"\n">> \o Indent(level) \o <<"]">>)
            ELSE Return(<<"[ ", TypeText(items_schema.type), " ]">>)
       ELSE Return(<<"[ ", "(any)", " ]">>)

\* lines 306-371
FormatSchemaAsJson(schema_, level) ==
    IF Falsy(schema_) THEN Return(<<"{}">>)
    ELSE IF "type" \in DOMAIN schema_
    THEN IF schema_.type = "object" /\ "properties" \in DOMAIN schema_
         THEN FormatObject(schema_, level)
         ELSE IF schema_.type = "array" /\ "items" \in DOMAIN schema_
         THEN FormatArray(schema_, level)
         ELSE Return(<<TypeText(schema_.type)>>)
    ELSE Return(<<"(any)">>)

(***************************************************************************)
(* generate_sidebar_html and generate_endpoint_sections.  Of the HTML they *)
(* assemble the model keeps the data it is filled with: the sidebar is the *)
(* sequence of the names of its <li> entries, a section is the tag, its    *)
(* description and, for each endpoint, what is shown of the details that   *)
(* were looked up.                                                         *)
(***************************************************************************)
\* lines 147-158
GenerateSidebarHtml(tags_, tag_endpoints_) ==
    LET active_tags == SelectSeq(tags_, LAMBDA tag : DictHas(tag_endpoints_, tag.name))
    IN [i \in 1..Len(active_tags) |-> active_tags[i].name]

\* line 434: {tag['name']: tag.get('description', '') for tag in ...}
RECURSIVE TagsInfo(_)
TagsInfo(all_tags) ==
    IF all_tags = <<>> THEN <<>>
    ELSE LET n == Len(all_tags)
         IN DictSet(TagsInfo(SubSeq(all_tags, 1, n - 1)),
                    all_tags[n].name, Get(all_tags[n], "description", ""))

\* line 445: self.spec_data['paths'][path][method.lower()]
LookupDetails(spec, path, method) ==
    LET methods == DictGet(spec.paths, path)
    IN IF DictHas(methods, Lower(method))
       THEN [raised |-> "", details |-> DictGet(methods, Lower(method))]
       ELSE [raised |-> "KeyError"]

\* lines 442-479: the preview of one endpoint
EndpointPreview(spec, endpoint) ==
    LET found == LookupDetails(spec, endpoint.path, endpoint.method)
    IN IF found.raised # "" THEN found
       ELSE [raised |-> "",
             path |-> endpoint.path,
             method |-> endpoint.method,
             summary |-> Get(found.details, "summary", ""),
             description |-> Get(found.details, "description", "")]

\* lines 431-489
GenerateEndpointSections(spec, order, tag_endpoints_) ==
    LET tags_info == TagsInfo(ExtractTags(spec, order))
        previews == [b \in 1..Len(tag_endpoints_) |->
                       [i \in 1..Len(tag_endpoints_[b][2]) |->
                           EndpointPreview(spec, tag_endpoints_[b][2][i])]]
    IN IF \E b \in 1..Len(previews) : \E i \in 1..Len(previews[b]) :
             previews[b][i].raised # ""
       THEN [raised |-> "KeyError", sections |-> <<>>]
       ELSE [raised |-> "",
             sections |-> [b \in 1..Len(tag_endpoints_) |->
                             [tag |-> tag_endpoints_[b][1],
                              description |->
                                  IF DictHas(tags_info, tag_endpoints_[b][1])
                                  THEN DictGet(tags_info, tag_endpoints_[b][1])
                                  ELSE "",
                              endpoints |-> previews[b]]]]

(***************************************************************************)
(* Schemas whose mappings are shared.  A YAML alias makes two places of    *)
(* the loaded document the same Python dict, so a schema is in general a   *)
(* graph of objects: py_objects[k] is the k-th dict, and the value of a    *)
(* property or of `items` in it is the number of the dict it refers to.    *)
(***************************************************************************)
IsShared(x) == "py_objects" \in DOMAIN x

\* the dict with its references left out
Shallow(node) == [k \in DOMAIN node \ {"properties", "items"} |-> node[k]]

\* the tree the renderer reads from object `id`, followed `fuel` references deep
RECURSIVE Unfold(_, _, _)
Unfold(objects, id, fuel) ==
    LET node == objects[id]
        Sub(ref) == IF fuel = 0 THEN Shallow(objects[ref])
                    ELSE Unfold(objects, ref, fuel - 1)
    IN IF "properties" \in DOMAIN node
       THEN [node EXCEPT !.properties =
                [i \in 1..Len(node.properties) |->
                    <<node.properties[i][1], Sub(node.properties[i][2])>>]]
       ELSE IF "items" \in DOMAIN node
       THEN [node EXCEPT !.items = Sub(node.items)]
       ELSE node

\* line 336 / line 359: items_schema['type'] == 'object'
ItemsCall(objects, node) ==
    IF "type" \in DOMAIN objects[node.items] /\ objects[node.items].type = "object"
    THEN {node.items} ELSE {}

\* the objects on which the call on object `id` calls itself:
\* line 330 (object property), line 337 (array property), line 360 (array)
RecursiveCalls(objects, id) ==
    LET node == objects[id]
        OfProperty(ref) ==
            LET prop_schema == objects[ref]
                prop_type == Get(prop_schema, "type", "any")
            IN IF prop_type = "object" /\ "properties" \in DOMAIN prop_schema
               THEN {ref}
               ELSE IF prop_type = "array" /\ "items" \in DOMAIN prop_schema
               THEN ItemsCall(objects, prop_schema)
               ELSE {}
    IN IF Falsy(node) \/ "type" \notin DOMAIN node THEN {}
       ELSE IF node.type = "object" /\ "properties" \in DOMAIN node
       THEN UNION {OfProperty(node.properties[i][2]) : i \in 1..Len(node.properties)}
       ELSE IF node.type = "array" /\ "items" \in DOMAIN node
       THEN ItemsCall(objects, node)
       ELSE {}

\* the deepest nesting of calls the call on object `id` reaches, counted up
\* to one more than `left`
RECURSIVE StackDepth(_, _, _)
StackDepth(objects, id, left) ==
    IF left = 0 THEN 1
    ELSE LET below == {StackDepth(objects, c, left - 1) : c \in RecursiveCalls(objects, id)}
         IN IF below = {} THEN 1
            ELSE 1 + (CHOOSE d \in below : \A e \in below : e <= d)

\* the interpreter raises RecursionError in the call that would exceed its limit
ExceedsRecursionLimit(schema_) ==
    /\ IsShared(schema_)
    /\ StackDepth(schema_.py_objects, schema_.py_root, RecursionLimit) > RecursionLimit

\* the call on a schema given as a tree or as a graph of shared dicts
Call(schema_, level) ==
    IF ExceedsRecursionLimit(schema_) THEN Raise("RecursionError")
    ELSE IF IsShared(schema_)
    THEN FormatSchemaAsJson(Unfold(schema_.py_objects, schema_.py_root,
                                   2 * RecursionLimit + 2), level)
    ELSE FormatSchemaAsJson(schema_, level)

(***************************************************************************)
(* generate_html, one action per call it makes.                            *)
(***************************************************************************)
NotRun == <<"not run">>

InitCatalog ==
    /\ \E n \in 0..MaxOps :
          \E declared \in DeclaredLists, counts \in Splits(n),
             tagging \in [1..n -> TagChoices] :
             spec_data = Document(declared, counts, tagging)
    /\ set_iter \in Perms(EndpointTags(spec_data))
    /\ pc = "loaded"
    /\ tags = NotRun
    /\ tag_endpoints = NotRun
    /\ prev_run = NotRun
    /\ sidebar = NotRun
    /\ sections = NotRun

\* a document with its method keys spelled in one of the ways
InitPageCatalog ==
    /\ \E n \in 0..MaxOps :
          \E declared \in PageDeclaredLists, counts \in Splits(n),
             tagging \in [1..n -> PageTagChoices], keys \in MethodSpellings :
             spec_data = [tags |-> declared,
                          paths |-> SpelledPaths(counts, tagging, keys)]
    /\ set_iter \in Perms(EndpointTags(spec_data))
    /\ pc = "loaded"
    /\ tags = NotRun
    /\ tag_endpoints = NotRun
    /\ prev_run = NotRun
    /\ sidebar = NotRun
    /\ sections = NotRun

InitRenderIdle ==
    /\ schema = EmptyDict
    /\ indent_level = 0
    /\ rendered = Return(<<>>)
    /\ rpc = "idle"

InitCatalogIdle ==
    /\ spec_data = [tags |-> <<>>, paths |-> <<>>]
    /\ set_iter = <<>>
    /\ pc = "idle"
    /\ tags = NotRun
    /\ tag_endpoints = NotRun
    /\ prev_run = NotRun
    /\ sidebar = NotRun
    /\ sections = NotRun

InitRender ==
    /\ schema \in Schemas
    /\ indent_level \in 0..MaxIndent
    /\ rendered = Return(<<>>)
    /\ rpc = "call"

\* a call format_schema_as_json(schema, indent_level), as lines 262 and
\* 388 make it, to its return or to the exception it raises
format_schema_as_json ==
    /\ rpc = "call"
    /\ rendered' = Call(schema, indent_level)
    /\ rpc' = IF rendered'.raised = "" THEN "returned" ELSE "raised"
    /\ UNCHANGED <<schema, indent_level, catalogVars, pageVars>>

\* line 667: tags = self.extract_tags()
extract_tags ==
    /\ pc = "loaded"
    /\ tags' = ExtractTags(spec_data, set_iter)
    /\ pc' = "tags"
    /\ UNCHANGED <<spec_data, set_iter, tag_endpoints, prev_run, renderVars, pageVars>>

\* line 668: tag_endpoints = self.organize_endpoints_by_tag()
organize_endpoints_by_tag ==
    /\ pc = "tags"
    /\ tag_endpoints' = OrganizeEndpointsByTag(spec_data, set_iter)
    /\ pc' = "organized"
    /\ UNCHANGED <<spec_data, set_iter, tags, prev_run, renderVars, pageVars>>

\* lines 722-741: main() run once more on the same input file, in a new
\* process, whose string hashing (and so set iteration order) is its own
main ==
    /\ pc = "organized"
    /\ prev_run' = <<tags, tag_endpoints>>
    /\ set_iter' \in Perms(EndpointTags(spec_data))
    /\ pc' = "loaded"
    /\ tags' = NotRun
    /\ tag_endpoints' = NotRun
    /\ UNCHANGED <<spec_data, renderVars, pageVars>>

\* line 686: sidebar_html = self.generate_sidebar_html(tags, api_info, tag_endpoints)
generate_sidebar_html ==
    /\ pc = "organized"
    /\ sidebar' = GenerateSidebarHtml(tags, tag_endpoints)
    /\ pc' = "sidebar"
    /\ UNCHANGED <<spec_data, set_iter, tags, tag_endpoints, prev_run, sections,
                   renderVars>>

\* line 700: self.generate_endpoint_sections(tag_endpoints)
generate_endpoint_sections ==
    /\ pc = "sidebar"
    /\ sections' = GenerateEndpointSections(spec_data, set_iter, tag_endpoints)
    /\ pc' = IF sections'.raised = "" THEN "sections" ELSE "raised"
    /\ UNCHANGED <<spec_data, set_iter, tags, tag_endpoints, prev_run, sidebar,
                   renderVars>>

Init == InitCatalog /\ InitRenderIdle

Next == extract_tags \/ organize_endpoints_by_tag

\* one run of the program on each document
Spec == Init /\ [][Next]_vars

NextRuns == Next \/ main

\* repeated runs of the program on each document
SpecRuns == Init /\ [][NextRuns]_vars

InitRenderPartial ==
    /\ schema \in PartialSchemas
    /\ indent_level \in 0..MaxIndent
    /\ rendered = Return(<<>>)
    /\ rpc = "call"

InitRenderShared ==
    /\ schema \in SharedSchemas
    /\ indent_level \in 0..MaxIndent
    /\ rendered = Return(<<>>)
    /\ rpc = "call"

InitSchemas == InitCatalogIdle /\ InitRender

InitSharedSchemas == InitCatalogIdle /\ InitRenderShared

InitPartialSchemas == InitCatalogIdle /\ InitRenderPartial

NextRender == format_schema_as_json

\* the calls of format_schema_as_json on each schema and indent level
SpecRender == InitSchemas /\ [][NextRender]_vars

InitPage == InitPageCatalog /\ InitRenderIdle

NextPage == Next \/ generate_sidebar_html \/ generate_endpoint_sections

\* generate_html up to the sections, on documents with spelled method keys
SpecPage == InitPage /\ [][NextPage]_vars

\* the same calls on schemas with shared dicts
SpecRenderShared == InitSharedSchemas /\ [][NextRender]_vars

\* the same calls on schemas with null entries
SpecRenderPartial == InitPartialSchemas /\ [][NextRender]_vars

(***************************************************************************)
(* Vocabulary of the properties: the document as the claims describe it.   *)
(***************************************************************************)
\* the input operations, paths in document order, methods in order in a path
Operations == Flatten(spec_data.paths)

TagsOf(op) == Get(op.details, "tags", <<>>)

Untagged(op) == TagsOf(op) = <<>>

\* operations are told apart by their path and their summary "op<k>"
Ident(op) == <<op.path, op.details.summary>>

Idents(ops) == [i \in 1..Len(ops) |-> Ident(ops[i])]

BucketIdents(bucket) == [i \in 1..Len(bucket) |-> <<bucket[i].path, bucket[i].summary>>]

DeclaredNames == {spec_data.tags[i].name : i \in 1..Len(spec_data.tags)}

TagNamesUsed == UNION {Range(TagsOf(op)) : op \in Range(Operations)}

CategoryNames(all_tags) == [i \in 1..Len(all_tags) |-> all_tags[i].name]

IndexOf(s, x) == CHOOSE i \in 1..Len(s) : s[i] = x

SyntheticEntry ==
    [name |-> "Uncategorized",
     description |-> "Operations without specific categorization"]

\* C1: when no operation repeats a name in its tag list, every tag name
\* other than "Uncategorized" that some operation carries has a bucket, and
\* the bucket is exactly the operations carrying it, in document order,
\* whether the tag is declared or not.
C1_NoLossGrouping ==
    (pc = "organized" /\ \A op \in Range(Operations) : NoRepeat(TagsOf(op)))
        => \A t \in TagNamesUsed \ {"Uncategorized"} :
              /\ DictHas(tag_endpoints, t)
              /\ BucketIdents(DictGet(tag_endpoints, t))
                    = Idents(SelectSeq(Operations, LAMBDA op : t \in Range(TagsOf(op))))

\* an undeclared tag carried by two operations of a repeat-free document,
\* with both of them in its bucket
C1_Witness ==
    /\ pc = "organized"
    /\ \A op \in Range(Operations) : NoRepeat(TagsOf(op))
    /\ \E t \in TagNamesUsed \ ({"Uncategorized"} \cup DeclaredNames) :
          /\ DictHas(tag_endpoints, t)
          /\ Len(DictGet(tag_endpoints, t)) = 2

\* C2 as stated: the list of extract_tags holds an entry "Uncategorized"
\* with the fixed description if and only if some operation has an empty or
\* absent tag list.
C2_UncategorizedIffUntagged ==
    pc = "tags"
        => ((\E i \in 1..Len(tags) : tags[i] = SyntheticEntry)
               <=> \E op \in Range(Operations) : Untagged(op))

\* C2 amended: the equivalence holds for every document that does not
\* itself declare a tag named "Uncategorized" with the fixed description.
C2_UncategorizedIffUntaggedUnlessDeclared ==
    (pc = "tags" /\ SyntheticEntry \notin Range(spec_data.tags))
        => ((\E i \in 1..Len(tags) : tags[i] = SyntheticEntry)
               <=> \E op \in Range(Operations) : Untagged(op))

\* a document declaring "Uncategorized" (without the fixed description),
\* tagging an operation "Uncategorized" and holding an operation whose tag
\* list is present but empty: the synthetic entry is in the list
C2_Witness ==
    /\ pc = "tags"
    /\ SyntheticEntry \notin Range(spec_data.tags)
    /\ "Uncategorized" \in DeclaredNames
    /\ \E op \in Range(Operations) : "tags" \in DOMAIN op.details /\ Untagged(op)
    /\ \E op \in Range(Operations) : "Uncategorized" \in Range(TagsOf(op))
    /\ \E i \in 1..Len(tags) : tags[i] = SyntheticEntry

\* C3: when some operation is untagged, the "Uncategorized" bucket holds
\* exactly the untagged operations, each once, in input order, and no
\* operation that carries a tag.
C3_UncategorizedBucketIsUntagged ==
    (pc = "organized" /\ \E op \in Range(Operations) : Untagged(op))
        => /\ DictHas(tag_endpoints, "Uncategorized")
           /\ BucketIdents(DictGet(tag_endpoints, "Uncategorized"))
                 = Idents(SelectSeq(Operations, Untagged))

\* the operations a category groups: those carrying its name, and for
\* "Uncategorized" those with no tag as well
Matching(c) ==
    {op \in Range(Operations) :
        c \in Range(TagsOf(op)) \/ (c = "Uncategorized" /\ Untagged(op))}

\* C4: no bucket of the returned mapping is empty; a category of the
\* extract_tags list is a key of the mapping exactly when at least one
\* operation matches it, and the mapping has no other keys.
C4_NoEmptyBuckets ==
    pc = "organized"
        => /\ \A i \in 1..Len(tag_endpoints) : tag_endpoints[i][2] # <<>>
           /\ \A c \in Range(CategoryNames(tags)) :
                 DictHas(tag_endpoints, c) <=> Matching(c) # {}
           /\ Range(DictKeys(tag_endpoints)) \subseteq Range(CategoryNames(tags))

\* a declared category without operations is dropped while another
\* category keeps its bucket
C4_Witness ==
    /\ pc = "organized"
    /\ \E c \in DeclaredNames : Matching(c) = {} /\ ~DictHas(tag_endpoints, c)
    /\ \E c \in DeclaredNames : Matching(c) # {} /\ DictHas(tag_endpoints, c)

\* C5: the keys of the returned mapping, in order, are the names of the
\* extract_tags list with the empty categories removed, and "Uncategorized",
\* when it is a key, comes after every declared category.
C5_CategoryOrder ==
    pc = "organized"
        => /\ DictKeys(tag_endpoints)
                 = SelectSeq(CategoryNames(tags), LAMBDA c : Matching(c) # {})
           /\ DictHas(tag_endpoints, "Uncategorized")
                 => \A c \in DeclaredNames \ {"Uncategorized"} :
                       DictHas(tag_endpoints, c)
                          => IndexOf(DictKeys(tag_endpoints), c)
                                < IndexOf(DictKeys(tag_endpoints), "Uncategorized")

\* the names the operations carry, in the order they are first seen
RECURSIVE FirstSeen(_, _)
FirstSeen(names, seen) ==
    IF names = <<>> THEN <<>>
    ELSE IF Head(names) \in seen
         THEN FirstSeen(Tail(names), seen)
         ELSE <<Head(names)>> \o FirstSeen(Tail(names), seen \cup {Head(names)})

FirstSeenUndeclared ==
    FirstSeen(Concat([i \in 1..Len(Operations) |-> TagsOf(Operations[i])]),
              DeclaredNames)

\* C6: extract_tags returns the declared categories in declared order with
\* their descriptions, followed by the undeclared tag names of the
\* operations, each with an empty description, in first-seen order.
C6_FirstSeenOrder ==
    pc = "tags"
        => LET k == Cardinality(DeclaredNames)
               und == FirstSeenUndeclared
           IN /\ Len(tags) >= k + Len(und)
              /\ NoRepeat(CategoryNames(spec_data.tags))
                    => \A i \in 1..k :
                          tags[i] = [name |-> spec_data.tags[i].name,
                                     description |->
                                        Get(spec_data.tags[i], "description", "")]
              /\ \A i \in 1..Len(und) :
                    tags[k + i] = [name |-> und[i], description |-> ""]

\* C7: two runs of the program on one document produce the same sequence
\* of categories and the same buckets.
C7_Deterministic ==
    (pc = "organized" /\ prev_run # NotRun)
        => <<tags, tag_endpoints>> = prev_run

(***************************************************************************)
(* Vocabulary of the properties of the rendered text.                      *)
(***************************************************************************)
IsObjectWithProperties(s) ==
    /\ ~Falsy(s)
    /\ "type" \in DOMAIN s /\ s.type = "object"
    /\ "properties" \in DOMAIN s

\* the lines of a text: its pieces between the "\n" pieces
RECURSIVE SplitLines(_, _)
SplitLines(text, line) ==
    IF text = <<>> THEN <<line>>
    ELSE IF Head(text) = "\n"
         THEN <<line>> \o SplitLines(Tail(text), <<>>)
         ELSE SplitLines(Tail(text), Append(line, Head(text)))

LinesOf(text) == SplitLines(text, <<>>)

\* the number of indent units a line starts with
RECURSIVE LeadingIndent(_)
LeadingIndent(line) ==
    IF line # <<>> /\ Head(line) = "  " THEN 1 + LeadingIndent(Tail(line)) ELSE 0

IsKeyPiece(piece) == \E i \in 1..Len(PropNames) : piece = "\"" \o PropNames[i] \o "\""

KeyPieceOf(prop_name) == "\"" \o prop_name \o "\""

\* the lines of `text` that are indented by `level` units and start with a key
KeyLinesAt(text, level) ==
    SelectSeq(LinesOf(text),
              LAMBDA line : /\ LeadingIndent(line) = level
                            /\ Len(line) > level
                            /\ IsKeyPiece(line[level + 1]))

\* the property names of an object and of the objects rendered inside it
\* (nested objects and the item objects of arrays), in document order
RECURSIVE NamesInOrder(_)
NamesInOrder(s) ==
    IF IsObjectWithProperties(s)
    THEN Concat([i \in 1..Len(s.properties) |->
                    LET ps == s.properties[i][2]
                    IN <<KeyPieceOf(s.properties[i][1])>>
                          \o (IF IsObjectWithProperties(ps) THEN NamesInOrder(ps)
                              ELSE IF /\ ~Falsy(ps)
                                      /\ "type" \in DOMAIN ps /\ ps.type = "array"
                                      /\ "items" \in DOMAIN ps
                                   THEN NamesInOrder(ps.items)
                                   ELSE <<>>)])
    ELSE <<>>

\* C8: for an object schema with properties the text has one entry per
\* property, in the order of the properties mapping: the key lines one
\* indent level below the call's are the property names in that order, and
\* the keys of the whole text are the names of the object and of the
\* objects nested in it, in document order.
C8_PropertyOrder ==
    (rpc = "returned" /\ IsObjectWithProperties(schema))
        => /\ LET lines == KeyLinesAt(rendered.text, indent_level + 1)
              IN [i \in 1..Len(lines) |-> lines[i][indent_level + 2]]
                    = [i \in 1..Len(schema.properties) |->
                          KeyPieceOf(schema.properties[i][1])]
           /\ SelectSeq(rendered.text, IsKeyPiece) = NamesInOrder(schema)

\* an object whose properties are not in alphabetical order and whose second
\* property is a nested object with two properties of its own
C8_Witness ==
    /\ rpc = "returned"
    /\ IsObjectWithProperties(schema)
    /\ Len(schema.properties) = 2
    /\ schema.properties[1][1] = "name"
    /\ IsObjectWithProperties(schema.properties[2][2])
    /\ Len(schema.properties[2][2].properties) = 2
    /\ schema.properties[2][2].properties[1][1] = "name"
    /\ Len(SelectSeq(rendered.text, IsKeyPiece)) = 4

IsPrimitiveProperty(ps) ==
    /\ ~Falsy(ps)
    /\ "type" \in DOMAIN ps
    /\ ps.type \notin {"object", "array"}

\* "(type)", then " // description" iff the description is non-empty, then
\* " *" iff the name is required
ExpectedValue(prop_name, ps, required) ==
    <<"(" \o ps.type \o ")">>
        \o (IF "description" \in DOMAIN ps /\ ps.description # ""
            THEN <<" // " \o ps.description>> ELSE <<>>)
        \o (IF prop_name \in Range(required) THEN <<" *">> ELSE <<>>)

\* what follows the key and ": " in a property line, the separating comma apart
ValueOf(line, level) ==
    LET rest == SubSeq(line, level + 3, Len(line))
    IN IF rest # <<>> /\ rest[Len(rest)] = ","
       THEN SubSeq(rest, 1, Len(rest) - 1) ELSE rest

\* C9: the value rendered for a primitive property is "(type)", then the
\* comment iff it has a non-empty description, then the marker iff its name
\* is in the required list of the enclosing object, in that order.
C9_AnnotationOrder ==
    (rpc = "returned" /\ IsObjectWithProperties(schema))
        => LET lines == KeyLinesAt(rendered.text, indent_level + 1)
               required == Get(schema, "required", <<>>)
           IN \A i \in 1..Len(schema.properties) :
                 IsPrimitiveProperty(schema.properties[i][2])
                    => /\ i <= Len(lines)
                       /\ lines[i][indent_level + 2]
                             = KeyPieceOf(schema.properties[i][1])
                       /\ ValueOf(lines[i], indent_level + 1)
                             = ExpectedValue(schema.properties[i][1],
                                             schema.properties[i][2], required)

\* a required property with a description, rendered "(string) // Display
\* name *", next to a property with neither, rendered "(integer)"
C9_Witness ==
    /\ rpc = "returned"
    /\ IsObjectWithProperties(schema)
    /\ Get(schema, "required", <<>>) = <<"id">>
    /\ schema.properties
          = << <<"id", [type |-> "string", description |-> "Display name"]>>,
               <<"name", [type |-> "integer"]>> >>
    /\ LinesOf(rendered.text)[2]
          = Indent(indent_level + 1)
               \o <<"\"id\"", ": ", "(string)", " // Display name", " *", ",">>
    /\ LinesOf(rendered.text)[3]
          = Indent(indent_level + 1) \o <<"\"name\"", ": ", "(integer)">>

\* C10: a top-level array whose items are an object with properties,
\* rendered at level n, is "[", the item block indented as a block rendered
\* at level n+1 (its braces at n+1, its property lines at n+2), and "]" at n.
C10_TopLevelArrayIndent ==
    (/\ rpc = "returned"
     /\ ~Falsy(schema)
     /\ "type" \in DOMAIN schema /\ schema.type = "array"
     /\ "items" \in DOMAIN schema
     /\ IsObjectWithProperties(schema.items)
     /\ schema.items.properties # <<>>)
        => rendered.text
              = <<"[", "\n">> \o Indent(indent_level + 1)
                   \o FormatSchemaAsJson(schema.items, indent_level + 1).text
                   \o <<"\n">> \o Indent(indent_level) \o <<"]">>

\* the types the renderer gives a structure to, and the primitive names
RecognisedTypes == {"object", "array", "string", "integer", "number", "boolean"}

\* a partial node: an array without items, an object without properties,
\* or a node of an unrecognised type
IsPartialNode(s) ==
    /\ ~Falsy(s)
    /\ "type" \in DOMAIN s
    /\ \/ s.type = "array" /\ "items" \notin DOMAIN s
       \/ s.type = "object" /\ "properties" \notin DOMAIN s
       \/ s.type \notin RecognisedTypes

\* C11 as stated: a partial node, at the top level or as a property of an
\* object, is rendered as "(any)" or "{}".
C11_PartialNodePlaceholder ==
    /\ (rpc = "returned" /\ IsPartialNode(schema))
          => rendered.text \in {<<"(any)">>, <<"{}">>}
    /\ (rpc = "returned" /\ IsObjectWithProperties(schema))
          => LET lines == KeyLinesAt(rendered.text, indent_level + 1)
             IN \A i \in 1..Len(schema.properties) :
                   IsPartialNode(schema.properties[i][2])
                      => /\ i <= Len(lines)
                         /\ ValueOf(lines[i], indent_level + 1)
                               \in {<<"(any)">>, <<"{}">>}

\* C11 amended: rendering a partial node raises nothing and gives its own
\* type name in parentheses, "(array)", "(object)" or "(<type>)"; as a
\* property it is followed by the comment and the required marker like a
\* primitive.
C11_PartialNodeRendersItsType ==
    /\ IsPartialNode(schema) => rpc # "raised"
    /\ (rpc = "returned" /\ IsPartialNode(schema))
          => rendered.text = <<"(" \o schema.type \o ")">>
    /\ (rpc = "returned" /\ IsObjectWithProperties(schema))
          => LET lines == KeyLinesAt(rendered.text, indent_level + 1)
                 required == Get(schema, "required", <<>>)
             IN \A i \in 1..Len(schema.properties) :
                   IsPartialNode(schema.properties[i][2])
                      => /\ i <= Len(lines)
                         /\ lines[i][indent_level + 2]
                               = KeyPieceOf(schema.properties[i][1])
                         /\ ValueOf(lines[i], indent_level + 1)
                               = ExpectedValue(schema.properties[i][1],
                                               schema.properties[i][2], required)

\* an object holding an array without items, required, and a node of an
\* unrecognised type, rendered "(array) *" and "(widget)"
C11_Witness ==
    /\ rpc = "returned"
    /\ IsObjectWithProperties(schema)
    /\ Get(schema, "required", <<>>) = <<"id">>
    /\ schema.properties
          = << <<"id", [type |-> "array"]>>, <<"name", [type |-> "widget"]>> >>
    /\ LinesOf(rendered.text)[2]
          = Indent(indent_level + 1) \o <<"\"id\"", ": ", "(array)", " *", ",">>
    /\ LinesOf(rendered.text)[3]
          = Indent(indent_level + 1) \o <<"\"name\"", ": ", "(widget)">>

\* C12: on every finite schema tree, null, empty and absent entries
\* included, the call returns a text and raises no error.
C12_NeverRaises == rpc # "raised"

\* a dict is reachable from itself through properties or items
Refs(node) ==
    IF "properties" \in DOMAIN node
    THEN {node.properties[i][2] : i \in 1..Len(node.properties)}
    ELSE IF "items" \in DOMAIN node THEN {node.items} ELSE {}

RECURSIVE Reach(_, _, _)
Reach(objects, from, steps) ==
    IF steps = 0 THEN from
    ELSE Reach(objects, from \cup UNION {Refs(objects[k]) : k \in from}, steps - 1)

IsCyclic(schema_) ==
    /\ IsShared(schema_)
    /\ LET objects == schema_.py_objects
           seen == Reach(objects, {schema_.py_root}, Len(objects))
       IN \E k \in seen : k \in Reach(objects, Refs(objects[k]), Len(objects))

\* C13: on every input, a schema in which an object or array is reachable
\* from itself included, the recursion stops and the call returns; it does
\* not run into the interpreter's recursion limit.
C13_CyclicSchemaReturns ==
    (rpc # "call" /\ IsCyclic(schema))
        => rpc = "returned" /\ rendered.raised # "RecursionError"

\* a property schema that is a mapping without a type
IsUntypedProperty(ps) == ~IsNone(ps) /\ "type" \notin DOMAIN ps

\* C14 as stated: the value rendered for a property without a type is
\* "(any)" and nothing else, whether or not the property has a description
\* and whether or not it is required.
C14_UntypedIsBareAny ==
    (rpc = "returned" /\ IsObjectWithProperties(schema))
        => LET lines == KeyLinesAt(rendered.text, indent_level + 1)
           IN \A i \in 1..Len(schema.properties) :
                 IsUntypedProperty(schema.properties[i][2])
                    => /\ i <= Len(lines)
                       /\ ValueOf(lines[i], indent_level + 1) = <<"(any)">>

\* C14 amended: the value rendered for a property without a type is
\* "(any)", then " // description" iff it has a non-empty description, then
\* " *" iff its name is in the required list of the enclosing object.
C14_UntypedIsAnnotatedAny ==
    (rpc = "returned" /\ IsObjectWithProperties(schema))
        => LET lines == KeyLinesAt(rendered.text, indent_level + 1)
               required == Get(schema, "required", <<>>)
           IN \A i \in 1..Len(schema.properties) :
                 LET prop_name == schema.properties[i][1]
                     ps == schema.properties[i][2]
                 IN IsUntypedProperty(ps)
                       => /\ i <= Len(lines)
                          /\ lines[i][indent_level + 2] = KeyPieceOf(prop_name)
                          /\ ValueOf(lines[i], indent_level + 1)
                                = <<"(any)">>
                                     \o (IF Get(ps, "description", "") # ""
                                         THEN <<" // " \o ps.description>> ELSE <<>>)
                                     \o (IF prop_name \in Range(required)
                                         THEN <<" *">> ELSE <<>>)

\* a required property with a description and no type, rendered
\* "(any) // Display name *", next to an empty property schema, rendered "(any)"
C14_Witness ==
    /\ rpc = "returned"
    /\ IsObjectWithProperties(schema)
    /\ Get(schema, "required", <<>>) = <<"id">>
    /\ schema.properties
          = << <<"id", [description |-> "Display name"]>>, <<"name", EmptyDict>> >>
    /\ LinesOf(rendered.text)[2]
          = Indent(indent_level + 1)
               \o <<"\"id\"", ": ", "(any)", " // Display name", " *", ",">>
    /\ LinesOf(rendered.text)[3]
          = Indent(indent_level + 1) \o <<"\"name\"", ": ", "(any)">>

\* C15: the call on an absent (None) or empty schema returns exactly "{}",
\* without indentation, at every indent level.
C15_EmptySchemaBraces ==
    (rpc # "call" /\ schema \in {None, EmptyDict})
        => rpc = "returned" /\ rendered.text = <<"{}">>

\* the call on None at an indent level above 0 has returned "{}"
C15_Witness ==
    /\ rpc = "returned"
    /\ schema = None
    /\ indent_level > 0
    /\ rendered.text = <<"{}">>

\* C16: the names in the list extract_tags returns are pairwise distinct,
\* and so the sidebar has exactly one entry for each bucket of
\* organize_endpoints_by_tag.
C16_DistinctCategoryNames ==
    pc \in {"sidebar", "sections", "raised"}
        => /\ NoRepeat([i \in 1..Len(tags) |-> tags[i].name])
           /\ NoRepeat(sidebar)
           /\ Range(sidebar) = Range(DictKeys(tag_endpoints))

\* C17: every entry in a bucket carries the upper-cased method, and the
\* details generate_endpoint_sections looks up for it by path and lower-cased
\* method are those of the operation the entry was built from (operations
\* are told apart by their summaries), however the document spells the key.
C17_MethodCaseRoundTrip ==
    pc \in {"sections", "raised"}
        => /\ pc = "sections"
           /\ \A b \in 1..Len(tag_endpoints) :
                 \A i \in 1..Len(tag_endpoints[b][2]) :
                    LET entry == tag_endpoints[b][2][i]
                        shown == sections.sections[b].endpoints[i]
                    IN /\ entry.method \in {"GET", "POST", "PUT", "DELETE"}
                       /\ shown.path = entry.path
                       /\ shown.summary = entry.summary

====
